---- MODULE Spec2Model ----
(***************************************************************************)
(* trust_hardcore (src/src/main.rs): a supervisor that runs a game server  *)
(* as a child process, reads its log lines, tracks who is online and for   *)
(* how long, takes checkpoint backups of the world directory, and on a     *)
(* player's death rolls a die that may reset the world.                    *)
(*                                                                         *)
(* Durations and instants are counted in ticks of 1/TicksPerSec seconds,   *)
(* so that Duration::as_secs() is a real truncation.  Text is a sequence   *)
(* of one-character strings.                                               *)
(***************************************************************************)
EXTENDS Integers, Sequences, FiniteSets, TLC

\* ------------------------------------------------------------------ bounds
TicksPerSec == 2
MaxNowSecs == 13
MaxOut == 2
MaxIn == 1
MaxLines == 2
MaxSessions == 2
MaxMinutes == 2
MaxPlaySecs == 640
MaxAdvSecs == 52
MaxTyped == 3

\* ------------------------------------------------------- program constants
AdvanceThresholdSecs == 8
CheckpointMarginSecs == 30
SecsPerMinute == 60

\* The value standing for "no value": Option::None of players_online_since,
\* and a playtime.txt that is missing (load_playtime's Err).
Absent == -1

\* ------------------------------------------------------------------- text
USERNAME_CHARS ==
    {"a","b","c","d","e","f","g","h","i","j","k","l","m","n","o","p","q","r",
     "s","t","u","v","w","x","y","z","A","B","C","D","E","F","G","H","I","J",
     "K","L","M","N","O","P","Q","R","S","T","U","V","W","X","Y","Z","_","-",
     "0","1","2","3","4","5","6","7","8","9"}

is_username_char(c) == c \in USERNAME_CHARS

is_ascii_whitespace(c) == c \in {" ", "\t", "\n", "\r", "\f"}

\* The patterns run_server gives to str::find: the character ']' (line 374),
\* is_username_char (line 379) and its negation (line 386).
Matches(pat, c) ==
    CASE pat = "]" -> c = "]"
      [] pat = "username char" -> is_username_char(c)
      [] pat = "no username char" -> ~is_username_char(c)

\* The index of the first character of the text t that matches pat, 0 for none.
FirstIn(t, pat) ==
    IF \E i \in 1..Len(t) : Matches(pat, t[i])
    THEN CHOOSE i \in 1..Len(t) :
             Matches(pat, t[i]) /\ \A j \in 1..(i-1) : ~Matches(pat, t[j])
    ELSE 0

\* str::find: Some(index) as the index, None as 0.  The text is bound once
\* (t), so that it is evaluated once however it was computed.
Find(s, pat) == CHOOSE r \in {FirstIn(t, pat) : t \in {s}} : TRUE

\* str::starts_with
starts_with(s, p) == Len(p) <= Len(s) /\ SubSeq(s, 1, Len(p)) = p

\* The suffix s[i..] (i is a 1-based index; i = Len(s)+1 gives the empty text).
From(s, i) == SubSeq(s, i, Len(s))

RECURSIVE TrimStart(_)
TrimStart(b) ==
    IF Len(b) > 0 /\ is_ascii_whitespace(b[1]) THEN TrimStart(Tail(b)) ELSE b

RECURSIVE TrimEnd(_)
TrimEnd(b) ==
    IF Len(b) > 0 /\ is_ascii_whitespace(b[Len(b)])
    THEN TrimEnd(SubSeq(b, 1, Len(b) - 1))
    ELSE b

bytes_to_string(bytes) == TrimEnd(TrimStart(bytes))

JOINED_THE_GAME == <<" ","j","o","i","n","e","d"," ","t","h","e"," ","g","a","m","e">>
LEFT_THE_GAME == <<" ","l","e","f","t"," ","t","h","e"," ","g","a","m","e">>

\* ------------------------------------------------------ configuration used
\* death_msg, as parse_lang returns it for a lang file with the one line
\* death.fell.accident.generic=%1$s fell
death_msg == << <<" ","f","e","l","l">> >>

IgnoreAsleep == <<" ","f","e","l","l"," ","a","s","l","e","e","p">>
IgnoreLeft == <<" ","l","e","f","t">>

\* on_death_command: "kill {username}"
DeathCommandTemplate == <<"k","i","l","l"," ","{username}">>

\* Two configurations.  ConfigA: an allow-list, backups and an on-death command.
\* ConfigB: every player allowed, no backups, and an ignore-phrase that is also
\* a prefix of " left the game".
ConfigA ==
    [ ignore_phrases |-> <<IgnoreAsleep>>,
      make_backups |-> TRUE,
      players |-> { <<"S">> },
      allow_all_players |-> FALSE,
      on_death_command |-> DeathCommandTemplate,
      checkpoint_minutes |-> 1,
      roll_range |-> <<1, 2>>,
      deadly_rolls |-> <<2, 7>>,
      bracket_count |-> 1 ]

ConfigB ==
    [ ignore_phrases |-> <<IgnoreAsleep, IgnoreLeft>>,
      make_backups |-> FALSE,
      players |-> { <<"S">> },
      allow_all_players |-> TRUE,
      on_death_command |-> <<>>,
      checkpoint_minutes |-> 1,
      roll_range |-> <<1, 2>>,
      deadly_rolls |-> <<2, 7>>,
      bracket_count |-> 1 ]

Configs == {ConfigA, ConfigB}

\* ------------------------------------------------------ lines of the child
Prefix == <<"[","I","]"," ">>
LineJoinS == Prefix \o <<"S">> \o JOINED_THE_GAME
LineJoinSCr == Prefix \o <<"S">> \o JOINED_THE_GAME \o <<"\r">>
LineLeftS == Prefix \o <<"S">> \o LEFT_THE_GAME
LineJoinT == Prefix \o <<"T">> \o JOINED_THE_GAME
LineFellS == Prefix \o <<"S"," ","f","e","l","l">>
LineFellAsleepS == Prefix \o <<"S"," ","f","e","l","l"," ","a","s","l","e","e","p">>

\* What the child may write to its stdout or stderr (before the reader's trim).
RawLines ==
    {LineJoinS, LineJoinSCr, LineLeftS, LineJoinT, LineFellS, LineFellAsleepS}

Heartbeat == <<>>

\* ------------------------------------------------------------- durations
Secs(n) == n * TicksPerSec
as_secs(d) == d \div TicksPerSec

\* ------------------------------------------------- run_server: the parsing
\* Lines 372-377: strip the first n "[...]"; ok = FALSE is `continue 'read_line`.
RECURSIVE StripBrackets(_, _)
StripBrackets(line, n) ==
    IF n = 0 THEN [ok |-> TRUE, rest |-> line]
    ELSE LET bracket == Find(line, "]")
         IN  IF bracket = 0 THEN [ok |-> FALSE, rest |-> line]
             ELSE StripBrackets(From(line, bracket + 1), n - 1)

\* Lines 369-392: the username and the message of a line; skip = TRUE is
\* `continue 'read_line` (the rest of the loop body, try_wait included, is skipped).
ParseLine(cfg, line) ==
    LET stripped == StripBrackets(line, cfg.bracket_count)
        line_start == Find(stripped.rest, "username char")
        named == From(stripped.rest, line_start)
        nonname == Find(named, "no username char")
        msg_start == IF nonname = 0 THEN Len(named) + 1 ELSE nonname
        username == SubSeq(named, 1, msg_start - 1)
        msg == From(named, msg_start)
    IN  IF ~stripped.ok \/ line_start = 0
        THEN [skip |-> TRUE, username |-> <<>>, msg |-> <<>>]
        ELSE IF ~cfg.allow_all_players /\ username \notin cfg.players
        THEN [skip |-> TRUE, username |-> username, msg |-> msg]
        ELSE [skip |-> FALSE, username |-> username, msg |-> msg]

AnyStartsWith(list, msg) == \E i \in 1..Len(list) : starts_with(msg, list[i])

\* Lines 394-395: the condition of the death branch.
IsDeathBuggy(cfg, msg) == AnyStartsWith(death_msg, msg)
IsDeath(cfg, msg) ==
    AnyStartsWith(death_msg, msg) /\ ~AnyStartsWith(cfg.ignore_phrases, msg)

\* Lines 394-419: which branch of the loop body a parsed line p takes.
Branch(cfg, p) ==
    IF p.skip THEN [kind |-> "Skip", username |-> p.username]
    ELSE IF IsDeath(cfg, p.msg) THEN [kind |-> "Death", username |-> p.username]
    ELSE IF starts_with(p.msg, JOINED_THE_GAME)
    THEN [kind |-> "Join", username |-> p.username]
    ELSE IF starts_with(p.msg, LEFT_THE_GAME)
    THEN [kind |-> "Leave", username |-> p.username]
    ELSE [kind |-> "Other", username |-> p.username]

\* Lines 369-419: a line is parsed (once) and takes its branch.
Classify(cfg, line) ==
    CHOOSE ev \in {Branch(cfg, p) : p \in {ParseLine(cfg, line)}} : TRUE

\* -------------------------------------------------------- update_playtime
\* Lines 316-318.
backup_interval(cfg) == cfg.checkpoint_minutes * SecsPerMinute

backup_count_after(cfg, playtime) ==
    (as_secs(playtime) + CheckpointMarginSecs) \div backup_interval(cfg)
backup_count(cfg, playtime) ==
    (as_secs(playtime) + backup_interval(cfg) - CheckpointMarginSecs)
        \div backup_interval(cfg)

\* Lines 303-324: the new players_online_since and playtime, whether playtime
\* was advanced (and so saved), and the returned flag.
update_playtime_no_reset(cfg, since, playtime, now) ==
    IF since # Absent /\ now - since > Secs(AdvanceThresholdSecs)
    THEN [ since |-> since,
           playtime |-> playtime + (now - since),
           advanced |-> TRUE,
           due |-> backup_count(cfg, playtime + (now - since))
                       > backup_count(cfg, playtime) ]
    ELSE [since |-> since, playtime |-> playtime, advanced |-> FALSE, due |-> FALSE]
update_playtime_below_threshold(cfg, since, playtime, now) ==
    IF since # Absent /\ now - since < Secs(AdvanceThresholdSecs)
    THEN [ since |-> now,
           playtime |-> playtime + (now - since),
           advanced |-> TRUE,
           due |-> backup_count(cfg, playtime + (now - since))
                       > backup_count(cfg, playtime) ]
    ELSE [since |-> since, playtime |-> playtime, advanced |-> FALSE, due |-> FALSE]
update_playtime(cfg, since, playtime, now) ==
    IF since # Absent /\ now - since > Secs(AdvanceThresholdSecs)
    THEN [ since |-> now,
           playtime |-> playtime + (now - since),
           advanced |-> TRUE,
           due |-> backup_count(cfg, playtime + (now - since))
                       > backup_count(cfg, playtime) ]
    ELSE [since |-> since, playtime |-> playtime, advanced |-> FALSE, due |-> FALSE]


\* on_death_command.replace("{username}", username)
RECURSIVE replace_username(_, _)
replace_username(template, username) ==
    IF template = <<>> THEN <<>>
    ELSE (IF Head(template) = "{username}" THEN username ELSE <<Head(template)>>)
             \o replace_username(Tail(template), username)

\* A command on the CommandSink: what is said or ordered, and the text put into it.
Cmd(op, arg) == [op |-> op, arg |-> arg]

\* ------------------------------------------------------------------ state
VARIABLES
    config,                \* the Config of load_config
    world,                 \* the world directory: [exists, playtime (playtime.txt, in s)]
    backup,                \* the backup of the world: [exists, playtime]
    server,                \* the child: "none", "running", "exited"
    stop_received,         \* the child has read "stop" from its stdin
    reader,                \* the read_pipe threads: stdout, stderr -> "running", "ended"
    writer,                \* the thread draining in_rx: "running", "panicked"
    outq,                  \* the out channel (EventSource)
    inq,                   \* the in channel (CommandSink)
    pc,                    \* where the main thread is
    line,                  \* run_server: the line being processed
    username,              \* run_server: the player who died
    penalty,               \* run_server: "None", "Rewind", "Reset"
    num,                   \* on_death: the number rolled
    online_players,        \* run_server
    players_online_since,  \* run_server: an instant, or Absent
    playtime,              \* run_server: a duration
    now,                   \* Instant::now()
    session,               \* how many times run has called run_server
    due,                   \* what the last update_playtime returned
    lines_read,            \* how many lines of the child the readers have sent on
    fsop,                  \* what the main thread's last step did to the directories
    trace,                 \* the steps of the current backup or recovery, in order
    relay,                 \* the console relay threads, by session: "none", "waiting",
                           \* "reading" (it holds the lock of stdin), "ended"
    past,                  \* the other threads of a session that has ended, by session
    console                \* the operator's input: [typed, lost, eof]

vars ==
    <<config, world, backup, server, stop_received, reader, writer, outq, inq, pc,
      line, username, penalty, num, online_players, players_online_since, playtime,
      now, session, due, lines_read, fsop, trace, relay, past, console>>

NoDir == [exists |-> FALSE, playtime |-> Absent]

ReaderNames == {"stdout", "stderr"}

ExitPcs == {"exit_ok", "exit_err", "panicked"}

\* A session is live from start_server's return to run_server's return.
Live == pc \notin ExitPcs \cup {"start", "restart"}

\* run calls run_server once per session: lines 484-487.
Sessions == 1..MaxSessions

\* The threads start_server spawns besides the console relay (lines 161-183),
\* as they stand once their session has ended: the two readers, the heartbeat
\* and the writer, and how many lines wait on the session's in channel.
\* NoTasks stands for a session whose threads are not followed.
NoTasks ==
    [stdout |-> "none", stderr |-> "none", heartbeat |-> "none", writer |-> "none",
     pending |-> 0]

\* Nothing typed yet on the program's stdin, which is open.
QuietConsole == [typed |-> 0, lost |-> 0, eof |-> FALSE]

\* Lines 187-196: io::stdin().lock() is held for the whole `for` loop, so a
\* relay spawned while another one holds the lock waits for it.
SpawnedRelay(rl) ==
    IF \E s \in DOMAIN rl : rl[s] = "reading" THEN "waiting" ELSE "reading"

\* The relay of the first session, which found the lock free.
FirstRelay == [s \in Sessions |-> IF s = 1 THEN "reading" ELSE "none"]

\* The directories the program may find when it is started.
InitialDirs ==
    { <<NoDir, NoDir>>,
      <<[exists |-> TRUE, playtime |-> 25], [exists |-> TRUE, playtime |-> 12]>> }

\* run, up to its first call of run_server.
Init ==
    /\ config \in Configs
    /\ \E d \in InitialDirs : world = d[1] /\ backup = d[2]
    /\ server = "none"
    /\ stop_received = FALSE
    /\ reader = [r \in ReaderNames |-> "ended"]
    /\ writer = "running"
    /\ outq = <<>>
    /\ inq = <<>>
    /\ pc = "start"
    /\ line = <<>>
    /\ username = <<>>
    /\ penalty = "None"
    /\ num = 0
    /\ online_players = {}
    /\ players_online_since = Absent
    /\ playtime = 0
    /\ now = 0
    /\ session = 1
    /\ due = FALSE
    /\ lines_read = 0
    /\ fsop = "none"
    /\ trace = <<>>
    /\ relay = [s \in Sessions |-> "none"]
    /\ past = [s \in Sessions |-> NoTasks]
    /\ console = QuietConsole

\* ------------------------------------------------------- the file system
\* load_playtime(..).unwrap_or_else(0): lines 244-249, 352-355.
load_playtime(w) ==
    IF w.exists /\ w.playtime # Absent THEN Secs(w.playtime) ELSE 0

\* save_playtime: lines 237-242.  File::create fails without the directory.
save_playtime(w, pt) == [w EXCEPT !.playtime = as_secs(pt)]

\* fs::remove_dir_all: lines 280, 441, 467, 471.
remove_dir_all_noop(dir) == dir
remove_dir_all(dir) == NoDir

\* copy_dir into a destination that does not exist: lines 251-270.
copy_dir_without_files(from) == [exists |-> TRUE, playtime |-> Absent]
copy_dir(from) == [exists |-> TRUE, playtime |-> from.playtime]

\* ------------------------------------------------- sending on the channels
\* Sender::send fails once the receiver is dropped, which the writer thread
\* does when it panics (line 181).
ReceiverAlive == writer = "running"

\* input.send(cmd).unwrap() on the main thread, then going to `next`:
\* a failed send panics (lines 210, 283-294, 434-462).
SendAfter(done, cmd, next) ==
    /\ ReceiverAlive => Len(inq) < MaxIn
    /\ IF ReceiverAlive
       THEN inq' = Append(inq, cmd) /\ pc' = next /\ trace' = Append(done, cmd.op)
       ELSE inq' = inq /\ pc' = "panicked" /\ trace' = done

SendThen(cmd, next) == SendAfter(trace, cmd, next)

\* server.try_wait()?.is_some(): lines 421-423.
AfterTryWaitAlwaysStops == "match"
AfterTryWait == IF server = "exited" THEN "match" ELSE "recv"


\* ------------------------------------------------------ run_server: setup
\* Lines 330-360: the configuration is loaded, the session's state is made,
\* playtime is read and the child is spawned with its threads.  The child
\* creates its world directory when it has none.
StartServer ==
    /\ pc = "start"
    /\ online_players' = {}
    /\ players_online_since' = Absent
    /\ playtime' = load_playtime(world)
    /\ server' = "running"
    /\ stop_received' = FALSE
    /\ reader' = [r \in ReaderNames |-> "running"]
    /\ writer' = "running"
    /\ outq' = <<>>
    /\ inq' = <<>>
    /\ penalty' = "None"
    /\ world' = [world EXCEPT !.exists = TRUE]
    /\ pc' = "recv"
    /\ fsop' = "none"
    /\ trace' = <<>>
    /\ due' = FALSE
    /\ lines_read' = 0
    /\ relay' = [relay EXCEPT ![session] = SpawnedRelay(relay)]
    /\ UNCHANGED <<past, console, config, backup, line, username, num, now, session>>

\* Line 358: start_server(..)? fails when the child cannot be spawned.
StartFails ==
    /\ pc = "start"
    /\ pc' = "exit_err"
    /\ UNCHANGED <<relay, past, console, config, world, backup, server, stop_received, reader, writer, outq,
                   inq, line, username, penalty, num, online_players,
                   players_online_since, playtime, now, session, due, fsop, trace, lines_read>>

\* ------------------------------------------------- run_server: the loop
\* Lines 361-367: the next line is taken from the channel and playtime is
\* bookkept; an advanced playtime is saved into the world directory.
RecvLine ==
    /\ pc = "recv"
    /\ outq # <<>>
    /\ LET u == update_playtime(config, players_online_since, playtime, now)
       IN  /\ line' = Head(outq)
           /\ outq' = Tail(outq)
           /\ players_online_since' = u.since
           /\ playtime' = u.playtime
           /\ due' = u.due
           /\ IF u.advanced /\ ~world.exists
              THEN /\ pc' = "exit_err"
                   /\ UNCHANGED <<world, fsop>>
              ELSE /\ world' = IF u.advanced THEN save_playtime(world, u.playtime)
                               ELSE world
                   /\ fsop' = IF u.advanced THEN "save_playtime" ELSE "none"
                   /\ pc' = IF u.due /\ config.make_backups THEN "bk_rm" ELSE "classify"
    /\ trace' = <<>>
    /\ UNCHANGED <<relay, past, console, config, backup, server, stop_received, reader, writer, inq,
                   username, penalty, num, online_players, now, session, lines_read>>

\* ------------------------------------------------------------ make_backup
\* Lines 277-284: the old backup is removed and save-all is sent.
BackupRemoveOld ==
    /\ pc = "bk_rm"
    /\ backup' = IF backup.exists THEN remove_dir_all(backup) ELSE backup
    /\ fsop' = IF backup.exists THEN "rm_backup" ELSE "none"
    /\ SendAfter(IF backup.exists THEN Append(trace, "rm_backup") ELSE trace,
                 Cmd("save-all", <<>>), "bk_saveoff")
    /\ UNCHANGED <<relay, past, console, config, world, server, stop_received, reader, writer, outq, line,
                   username, penalty, num, online_players, players_online_since,
                   playtime, now, session, due, lines_read>>

\* Lines 285-286.
BackupSaveOffForgotten ==
    /\ pc = "bk_saveoff"
    /\ pc' = "bk_copy"
    /\ UNCHANGED <<relay, past, console, config, world, backup, server, stop_received, reader, writer, outq,
                   inq, line, username, penalty, num, online_players,
                   players_online_since, playtime, now, session, due, lines_read,
                   fsop, trace>>
BackupSaveOff ==
    /\ pc = "bk_saveoff"
    /\ SendThen(Cmd("save-off", <<>>), "bk_copy")
    /\ fsop' = "none"
    /\ UNCHANGED <<relay, past, console, config, world, backup, server, stop_received, reader, writer, outq,
                   line, username, penalty, num, online_players, players_online_since,
                   playtime, now, session, due, lines_read>>

\* Lines 288-293: the world is copied and save-on is sent.
BackupCopy ==
    /\ pc = "bk_copy"
    /\ IF ~world.exists
       THEN /\ pc' = "exit_err"
            /\ UNCHANGED <<backup, fsop, inq, trace>>
       ELSE /\ backup' = copy_dir(world)
            /\ fsop' = "copy_to_backup"
            /\ SendAfter(Append(trace, "copy_to_backup"), Cmd("save-on", <<>>), "bk_say")
    /\ UNCHANGED <<relay, past, console, config, world, server, stop_received, reader, writer, outq, line,
                   username, penalty, num, online_players, players_online_since,
                   playtime, now, session, due, lines_read>>

\* Line 294.
BackupAnnounce ==
    /\ pc = "bk_say"
    /\ SendThen(Cmd("say Checkpoint!", <<>>), "classify")
    /\ fsop' = "none"
    /\ UNCHANGED <<relay, past, console, config, world, backup, server, stop_received, reader, writer, outq,
                   line, username, penalty, num, online_players, players_online_since,
                   playtime, now, session, due, lines_read>>

\* Lines 403-419: the online set after a line of branch ev.
online_after(ev, online) ==
    CASE ev.kind = "Join" -> online \cup {ev.username}
      [] ev.kind = "Leave" -> online \ {ev.username}
      [] OTHER -> online

\* Lines 403-419: players_online_since after a line of branch ev.
since_after_join_restarts(ev, online, since, t) ==
    CASE ev.kind = "Join" -> t
      [] ev.kind = "Leave" /\ online \ {ev.username} = {} -> Absent
      [] OTHER -> since
since_after(ev, online, since, t) ==
    CASE ev.kind = "Join" /\ online = {} -> t
      [] ev.kind = "Leave" /\ online \ {ev.username} = {} -> Absent
      [] OTHER -> since

\* ------------------------------------------------ run_server: the line
\* Lines 369-423: the line is parsed and its branch taken; a death goes on in
\* on_death, every other branch that is not skipped ends in try_wait.
ProcessLine ==
    /\ pc = "classify"
    /\ \E ev \in {Classify(config, line)} :
           /\ pc' = CASE ev.kind = "Skip" -> "recv"
                      [] ev.kind = "Death" ->
                             IF config.on_death_command # <<>> THEN "d_cmd" ELSE "d_say"
                      [] OTHER -> AfterTryWait
           /\ username' = IF ev.kind = "Death" THEN ev.username ELSE username
           /\ line' = <<>>
           /\ online_players' = online_after(ev, online_players)
           /\ players_online_since' =
                  since_after(ev, online_players, players_online_since, now)
    /\ fsop' = "none"
    /\ UNCHANGED <<relay, past, console, config, world, backup, server, stop_received, reader, writer, outq,
                   inq, penalty, num, playtime, now, session, due, trace, lines_read>>

\* --------------------------------------------------------------- on_death
\* Lines 212-214.
DeathCommand ==
    /\ pc = "d_cmd"
    /\ SendThen(Cmd("custom", replace_username(config.on_death_command, username)),
                "d_say")
    /\ UNCHANGED <<relay, past, console, config, world, backup, server, stop_received, reader, writer, outq,
                   line, username, penalty, num, online_players, players_online_since,
                   playtime, now, session, due, fsop, lines_read>>

\* Lines 218-219.
DeathSay ==
    /\ pc = "d_say"
    /\ SendThen(Cmd("say died", username), "d_rolling")
    /\ UNCHANGED <<relay, past, console, config, world, backup, server, stop_received, reader, writer, outq,
                   line, username, penalty, num, online_players, players_online_since,
                   playtime, now, session, due, fsop, lines_read>>

\* Lines 220-221.
DeathRolling ==
    /\ pc = "d_rolling"
    /\ SendThen(Cmd("say Rolling dice...", <<>>), "d_roll")
    /\ UNCHANGED <<relay, past, console, config, world, backup, server, stop_received, reader, writer, outq,
                   line, username, penalty, num, online_players, players_online_since,
                   playtime, now, session, due, fsop, lines_read>>

\* Line 222: gen_range(lo, hi + 1).
RollRangePastEnd(cfg) == cfg.roll_range[1] .. (cfg.roll_range[2] + 1)
RollRange(cfg) == cfg.roll_range[1] .. cfg.roll_range[2]

\* Lines 222-224.
DeathRoll ==
    /\ pc = "d_roll"
    /\ \E n \in RollRange(config) :
           /\ num' = n
           /\ SendThen(Cmd("say Rolled", <<n>>), "d_verdict")
    /\ UNCHANGED <<relay, past, console, config, world, backup, server, stop_received, reader, writer, outq,
                   line, username, penalty, online_players, players_online_since,
                   playtime, now, session, due, fsop, lines_read>>

\* Line 225.
IsDeadly(cfg, n) == \E i \in 1..Len(cfg.deadly_rolls) : cfg.deadly_rolls[i] = n

\* Lines 398-402 and 420-423: a penalty other than None breaks out of the
\* loop; with None the loop goes on to try_wait.
AfterDeathNoBreak(pen) == AfterTryWait
AfterDeath(pen) == IF pen \in {"Rewind", "Reset"} THEN "match" ELSE AfterTryWait

\* Lines 225-234 and, back in run_server, 398-402 and 421-423.
DeathVerdict ==
    /\ pc = "d_verdict"
    /\ IF IsDeadly(config, num)
       THEN /\ SendThen(Cmd("say Always lucky boii", <<>>), AfterDeath("Reset"))
            /\ penalty' = IF ReceiverAlive THEN "Reset" ELSE penalty
       ELSE /\ penalty' = "None"
            /\ pc' = AfterDeath("None")
            /\ UNCHANGED <<inq, trace>>
    /\ username' = <<>>
    /\ num' = 0
    /\ UNCHANGED <<relay, past, console, line, config, world, backup, server, stop_received, reader, writer, outq,
                   online_players, players_online_since, playtime, now, session, due,
                   fsop, lines_read>>


\* ------------------------------------------------- run_server: the penalty
\* Line 430: the guard of the rewind arm.
RewindAlways(pen, bk) == pen = "Rewind"
RewindChosen(pen, bk) == pen = "Rewind" /\ bk.exists

\* Lines 425-434 and 456-460: no penalty ends the run; otherwise the rewind or
\* the reset is announced.
Recover ==
    /\ pc = "match"
    /\ IF penalty = "None"
       THEN pc' = "exit_ok" /\ UNCHANGED <<inq, trace>>
       ELSE IF RewindChosen(penalty, backup)
       THEN SendAfter(<<>>, Cmd("say Winding back...", <<>>), "rw_stop")
       ELSE SendAfter(<<>>, Cmd("say Destroying world...", <<>>), "rs_stop")
    /\ fsop' = "none"
    /\ UNCHANGED <<relay, past, console, config, world, backup, server, stop_received, reader, writer, outq,
                   line, username, penalty, num, online_players, players_online_since,
                   playtime, now, session, due, lines_read>>

\* Lines 435-436.
RewindStop ==
    /\ pc = "rw_stop"
    /\ SendThen(Cmd("stop", <<>>), "rw_wait")
    /\ UNCHANGED <<relay, past, console, config, world, backup, server, stop_received, reader, writer, outq,
                   line, username, penalty, num, online_players, players_online_since,
                   playtime, now, session, due, fsop, lines_read>>

\* server.wait() returns once the child has exited: lines 438 and 464.
WaitReturnsAtOnce == TRUE
WaitReturns == server = "exited"

\* Line 438.
RewindWait ==
    /\ pc = "rw_wait"
    /\ WaitReturns
    /\ pc' = "rw_rm"
    /\ trace' = Append(trace, "wait")
    /\ UNCHANGED <<relay, past, console, config, world, backup, server, stop_received, reader, writer, outq,
                   inq, line, username, penalty, num, online_players,
                   players_online_since, playtime, now, session, due, fsop, lines_read>>

\* Lines 440-441.
RewindDeleteWorld ==
    /\ pc = "rw_rm"
    /\ IF world.exists
       THEN world' = remove_dir_all(world) /\ fsop' = "rm_world" /\ pc' = "rw_copy"
                /\ trace' = Append(trace, "rm_world")
       ELSE pc' = "exit_err" /\ UNCHANGED <<world, fsop, trace>>
    /\ UNCHANGED <<relay, past, console, config, backup, server, stop_received, reader, writer, outq, inq,
                   line, username, penalty, num, online_players, players_online_since,
                   playtime, now, session, due, lines_read>>

\* Lines 443-454: the backup is copied to the world's place; Ok(true).
RewindCopy ==
    /\ pc = "rw_copy"
    /\ IF backup.exists
       THEN world' = copy_dir(backup) /\ fsop' = "copy_to_world" /\ pc' = "restart"
                /\ trace' = Append(trace, "copy_to_world")
       ELSE pc' = "exit_err" /\ UNCHANGED <<world, fsop, trace>>
    /\ UNCHANGED <<relay, past, console, config, backup, server, stop_received, reader, writer, outq, inq,
                   line, username, penalty, num, online_players, players_online_since,
                   playtime, now, session, due, lines_read>>

\* Lines 461-462.
ResetStop ==
    /\ pc = "rs_stop"
    /\ SendThen(Cmd("stop", <<>>), "rs_wait")
    /\ UNCHANGED <<relay, past, console, config, world, backup, server, stop_received, reader, writer, outq,
                   line, username, penalty, num, online_players, players_online_since,
                   playtime, now, session, due, fsop, lines_read>>

\* Line 464.
ResetWait ==
    /\ pc = "rs_wait"
    /\ WaitReturns
    /\ pc' = "rs_rm"
    /\ trace' = Append(trace, "wait")
    /\ UNCHANGED <<relay, past, console, config, world, backup, server, stop_received, reader, writer, outq,
                   inq, line, username, penalty, num, online_players,
                   players_online_since, playtime, now, session, due, fsop, lines_read>>

\* Lines 466-467.
ResetDeleteWorld ==
    /\ pc = "rs_rm"
    /\ IF world.exists
       THEN world' = remove_dir_all(world) /\ fsop' = "rm_world" /\ pc' = "rs_rmbk"
                /\ trace' = Append(trace, "rm_world")
       ELSE pc' = "exit_err" /\ UNCHANGED <<world, fsop, trace>>
    /\ UNCHANGED <<relay, past, console, config, backup, server, stop_received, reader, writer, outq, inq,
                   line, username, penalty, num, online_players, players_online_since,
                   playtime, now, session, due, lines_read>>

\* Lines 469-474: the backup, if there is one, is removed; Ok(true).
ResetDeleteBackup ==
    /\ pc = "rs_rmbk"
    /\ backup' = IF backup.exists THEN remove_dir_all(backup) ELSE backup
    /\ fsop' = IF backup.exists THEN "rm_backup" ELSE "none"
    /\ trace' = IF backup.exists THEN Append(trace, "rm_backup") ELSE trace
    /\ pc' = "restart"
    /\ UNCHANGED <<relay, past, console, config, world, server, stop_received, reader, writer, outq, inq,
                   line, username, penalty, num, online_players, players_online_since,
                   playtime, now, session, due, lines_read>>

\* ------------------------------------------------------------------- run
\* Lines 484-487: run_server returned true, so it is called again.
RunAgain ==
    /\ pc = "restart"
    /\ session < MaxSessions
    /\ session' = session + 1
    /\ pc' = "start"
    /\ fsop' = "none"
    /\ UNCHANGED <<relay, past, console, config, world, backup, server, stop_received, reader, writer, outq,
                   inq, line, username, penalty, num, online_players,
                   players_online_since, playtime, now, due, trace, lines_read>>

\* main, lines 491-502: after Ok and after Err alike main returns, which is
\* exit status 0 (the Err arm only prints); a panic of the main thread is
\* exit status 101.
exit_status ==
    CASE pc = "exit_ok" -> 0
      [] pc = "exit_err" -> 0
      [] pc = "panicked" -> 101
      [] OTHER -> Absent

\* ------------------------------------------------------ the other threads
\* read_pipe, lines 67-80: a line of the child is trimmed and sent on.  Lines
\* the child wrote before it exited are still read after it.
ReadPipe(r, raw) ==
    /\ Live
    /\ reader[r] = "running"
    /\ Len(outq) < MaxOut
    /\ lines_read < MaxLines
    /\ lines_read' = lines_read + 1
    /\ outq' = Append(outq, bytes_to_string(raw))
    /\ UNCHANGED <<relay, past, console, config, world, backup, server, stop_received, reader, writer, inq,
                   pc, line, username, penalty, num, online_players,
                   players_online_since, playtime, now, session, due, fsop, trace>>

\* read_pipe: the pipe of an exited child ends, and so does the thread.
PipeEnds(r) ==
    /\ Live
    /\ reader[r] = "running"
    /\ server = "exited"
    /\ reader' = [reader EXCEPT ![r] = "ended"]
    /\ UNCHANGED <<relay, past, console, config, world, backup, server, stop_received, writer, outq, inq,
                   pc, line, username, penalty, num, online_players,
                   players_online_since, playtime, now, session, due, fsop, trace, lines_read>>

\* Lines 165-170: the periodic empty line.
HeartbeatSend ==
    /\ Live
    /\ Len(outq) < MaxOut
    /\ outq' = Append(outq, Heartbeat)
    /\ UNCHANGED <<relay, past, console, config, world, backup, server, stop_received, reader, writer, inq,
                   pc, line, username, penalty, num, online_players,
                   players_online_since, playtime, now, session, due, fsop, trace, lines_read>>

\* Lines 179-183: a command is written to the child's stdin; the write fails
\* when the child has exited, and unwrap() then ends the thread, dropping in_rx.
WriterWrite ==
    /\ Live
    /\ writer = "running"
    /\ inq # <<>>
    /\ IF server = "running"
       THEN /\ inq' = Tail(inq)
            /\ stop_received' = (stop_received \/ Head(inq).op = "stop")
            /\ writer' = writer
       ELSE /\ inq' = <<>>
            /\ writer' = "panicked"
            /\ stop_received' = stop_received
    /\ UNCHANGED <<relay, past, console, config, world, backup, server, reader, outq, pc, line, username,
                   penalty, num, online_players, players_online_since, playtime, now,
                   session, due, fsop, trace, lines_read>>

\* ------------------------------------------------------------- the child
\* The child exits without having been told to stop.
ServerExitsOnItsOwn ==
    /\ Live
    /\ server = "running"
    /\ ~stop_received
    /\ server' = "exited"
    /\ UNCHANGED <<relay, past, console, config, world, backup, stop_received, reader, writer, outq, inq,
                   pc, line, username, penalty, num, online_players,
                   players_online_since, playtime, now, session, due, fsop, trace, lines_read>>

\* The child exits after "stop".
ServerStops ==
    /\ Live
    /\ server = "running"
    /\ stop_received
    /\ server' = "exited"
    /\ UNCHANGED <<relay, past, console, config, world, backup, stop_received, reader, writer, outq, inq,
                   pc, line, username, penalty, num, online_players,
                   players_online_since, playtime, now, session, due, fsop, trace, lines_read>>

\* ------------------------------------------------------------- the clock
\* Instants are only ever compared with players_online_since, so the clock is
\* moved only while that is set.
TickSteps == {Secs(4) + 1, Secs(9)}

Tick(d) ==
    /\ Live
    /\ players_online_since # Absent
    /\ now + d <= Secs(MaxNowSecs)
    /\ now' = now + d
    /\ UNCHANGED <<relay, past, console, config, world, backup, server, stop_received, reader, writer, outq,
                   inq, pc, line, username, penalty, num, online_players,
                   players_online_since, playtime, session, due, fsop, trace, lines_read>>

\* ------------------------------------------------------ the specification
MainStep ==
    \/ StartServer
    \/ StartFails
    \/ RecvLine
    \/ BackupRemoveOld
    \/ BackupSaveOff
    \/ BackupCopy
    \/ BackupAnnounce
    \/ ProcessLine
    \/ DeathCommand
    \/ DeathSay
    \/ DeathRolling
    \/ DeathRoll
    \/ DeathVerdict
    \/ Recover
    \/ ResetStop
    \/ ResetWait
    \/ ResetDeleteWorld
    \/ ResetDeleteBackup
    \/ RunAgain

Next ==
    \/ MainStep
    \/ \E r \in ReaderNames, raw \in RawLines : ReadPipe(r, raw)
    \/ \E r \in ReaderNames : PipeEnds(r)
    \/ HeartbeatSend
    \/ WriterWrite
    \/ ServerExitsOnItsOwn
    \/ ServerStops
    \/ \E d \in TickSteps : Tick(d)

Spec == Init /\ [][Next]_vars


\* The main thread always runs on; the writer, the heartbeat and the readers
\* are threads of their own; a child told to stop exits.  The child's
\* output, its exiting on its own and the clock are under no obligation.
Fairness ==
    /\ WF_vars(MainStep)
    /\ WF_vars(WriterWrite)
    /\ WF_vars(HeartbeatSend)
    /\ WF_vars(ServerStops)
    /\ \A r \in ReaderNames : WF_vars(PipeEnds(r))

FairSpec == Spec /\ Fairness

\* ------------------------------------------- the recovery, from any penalty
\* on_death never returns Penalty::Rewind, so the rewind arm of run_server's
\* match is reached from no run of the program.  To check it, run_server is
\* taken up at line 425 with either penalty, the child running or gone, and
\* with or without a backup.
RecoveryInit ==
    /\ config \in Configs
    /\ world = [exists |-> TRUE, playtime |-> 27]
    /\ backup \in {NoDir, [exists |-> TRUE, playtime |-> 25]}
    /\ server \in {"running", "exited"}
    /\ stop_received = FALSE
    /\ reader = [r \in ReaderNames |-> "running"]
    /\ writer = "running"
    /\ outq = <<>>
    /\ inq = <<>>
    /\ pc = "match"
    /\ line = <<>>
    /\ username = <<>>
    /\ penalty \in {"Rewind", "Reset"}
    /\ num = 0
    /\ online_players = {}
    /\ players_online_since = Absent
    /\ playtime = Secs(27)
    /\ now = 0
    /\ session = 1
    /\ due = FALSE
    /\ lines_read = 0
    /\ fsop = "none"
    /\ trace = <<>>
    /\ relay = FirstRelay
    /\ past = [s \in Sessions |-> NoTasks]
    /\ console = QuietConsole

RecoveryNext ==
    \/ Next
    \/ RewindStop
    \/ RewindWait
    \/ RewindDeleteWorld
    \/ RewindCopy

RecoverySpec == RecoveryInit /\ [][RecoveryNext]_vars

\* --------------------------------------- update_playtime, from any playtime
\* One call of update_playtime (the first step of a loop iteration) from any
\* playtime, any time since the last advance and any checkpoint interval.
PlaytimeMinutes == (1..MaxMinutes) \cup {10}

PlaytimeInit ==
    /\ \E m \in PlaytimeMinutes : config = [ConfigA EXCEPT !.checkpoint_minutes = m]
    /\ \E p \in 0..MaxPlaySecs :
           /\ playtime = Secs(p)
           /\ world = [exists |-> TRUE, playtime |-> p]
    /\ backup = NoDir
    /\ server = "running"
    /\ stop_received = FALSE
    /\ reader = [r \in ReaderNames |-> "running"]
    /\ writer = "running"
    /\ outq = <<Heartbeat>>
    /\ inq = <<>>
    /\ pc = "recv"
    /\ line = <<>>
    /\ username = <<>>
    /\ penalty = "None"
    /\ num = 0
    /\ online_players = { <<"S">> }
    /\ players_online_since = 0
    /\ now \in 0..Secs(MaxAdvSecs)
    /\ session = 1
    /\ due = FALSE
    /\ lines_read = 0
    /\ fsop = "none"
    /\ trace = <<>>
    /\ relay = FirstRelay
    /\ past = [s \in Sessions |-> NoTasks]
    /\ console = QuietConsole

PlaytimeSpec == PlaytimeInit /\ [][RecvLine]_vars


\* ------------------------------- the threads of a session that has ended
\* run_server has returned true after a reset (lines 456-474): the child was
\* waited for, the directories are gone, and out_rx and the main thread's
\* in_tx are dropped.  The session's writer and its console relay are still
\* there (the relay holds a clone of in_tx, line 187), and so are the
\* heartbeat and whichever readers have not yet seen the end of their pipe.
\* run has called run_server again (pc = "start" of session 2), and the new
\* child is one that writes nothing.
TeardownInit ==
    /\ config \in Configs
    /\ world = NoDir
    /\ backup = NoDir
    /\ server = "exited"
    /\ stop_received = TRUE
    /\ reader = [r \in ReaderNames |-> "ended"]
    /\ writer = "running"
    /\ outq = <<>>
    /\ inq = <<>>
    /\ pc = "start"
    /\ line = <<>>
    /\ username = <<>>
    /\ penalty = "Reset"
    /\ num = 0
    /\ online_players = {}
    /\ players_online_since = Absent
    /\ playtime = 0
    /\ now = 0
    /\ session = 2
    /\ due = FALSE
    /\ lines_read = 0
    /\ fsop = "none"
    /\ trace = <<>>
    /\ relay = FirstRelay
    /\ \E so, se \in {"running", "ended"} :
           past = [s \in Sessions |->
                      IF s = 1
                      THEN [stdout |-> so, stderr |-> se, heartbeat |-> "running",
                            writer |-> "running", pending |-> 0]
                      ELSE NoTasks]
    /\ console = QuietConsole

\* Lines 188-194: the relay that holds the lock reads a line the operator
\* typed and sends it on the in channel of its own session; a failed send
\* ends the relay.  A line is lost when a session is running and the line
\* does not come onto that session's in channel.
ConsoleLine(s) ==
    /\ pc \notin ExitPcs \cup {"restart"}
    /\ relay[s] = "reading"
    /\ ~console.eof
    /\ console.typed < MaxTyped
    /\ IF s = session
       THEN /\ ReceiverAlive => Len(inq) < MaxIn
            /\ inq' = IF ReceiverAlive THEN Append(inq, Cmd("console", <<>>)) ELSE inq
            /\ relay' = IF ReceiverAlive THEN relay ELSE [relay EXCEPT ![s] = "ended"]
            /\ past' = past
            /\ console' = [console EXCEPT !.typed = @ + 1,
                                          !.lost = IF ReceiverAlive THEN @ ELSE @ + 1]
       ELSE /\ past[s].writer = "running" => past[s].pending < MaxIn
            /\ inq' = inq
            /\ relay' = IF past[s].writer = "running"
                        THEN relay ELSE [relay EXCEPT ![s] = "ended"]
            /\ past' = IF past[s].writer = "running"
                       THEN [past EXCEPT ![s].pending = @ + 1] ELSE past
            /\ console' = [console EXCEPT !.typed = @ + 1,
                                          !.lost = IF Live THEN @ + 1 ELSE @]
    /\ UNCHANGED <<config, world, backup, server, stop_received, reader, writer, outq,
                   pc, line, username, penalty, num, online_players,
                   players_online_since, playtime, now, session, due, lines_read,
                   fsop, trace>>

\* The program's stdin comes to its end.
ConsoleEof ==
    /\ pc \notin ExitPcs
    /\ ~console.eof
    /\ console' = [console EXCEPT !.eof = TRUE]
    /\ UNCHANGED <<config, world, backup, server, stop_received, reader, writer, outq,
                   inq, pc, line, username, penalty, num, online_players,
                   players_online_since, playtime, now, session, due, lines_read,
                   fsop, trace, relay, past>>

\* Line 188: at the end of stdin the relay's loop is over; its lock and its
\* clone of in_tx are dropped.
RelayEof(s) ==
    /\ pc \notin ExitPcs
    /\ relay[s] = "reading"
    /\ console.eof
    /\ relay' = [relay EXCEPT ![s] = "ended"]
    /\ UNCHANGED <<config, world, backup, server, stop_received, reader, writer, outq,
                   inq, pc, line, username, penalty, num, online_players,
                   players_online_since, playtime, now, session, due, lines_read,
                   fsop, trace, past, console>>

\* Line 188: a waiting relay gets the lock once no relay holds it.
RelayAcquire(s) ==
    /\ pc \notin ExitPcs
    /\ relay[s] = "waiting"
    /\ \A o \in Sessions : relay[o] # "reading"
    /\ relay' = [relay EXCEPT ![s] = "reading"]
    /\ UNCHANGED <<config, world, backup, server, stop_received, reader, writer, outq,
                   inq, pc, line, username, penalty, num, online_players,
                   players_online_since, playtime, now, session, due, lines_read,
                   fsop, trace, past, console>>

\* Lines 179-183, in a session that has ended: the child is gone, so the
\* write fails and unwrap() panics.
PastWriterWrite(s) ==
    /\ pc \notin ExitPcs
    /\ past[s].writer = "running"
    /\ past[s].pending > 0
    /\ past' = [past EXCEPT ![s].writer = "panicked", ![s].pending = 0]
    /\ UNCHANGED <<config, world, backup, server, stop_received, reader, writer, outq,
                   inq, pc, line, username, penalty, num, online_players,
                   players_online_since, playtime, now, session, due, lines_read,
                   fsop, trace, relay, console>>

\* Line 180: in_rx.iter() ends when every sender is dropped: the main
\* thread's at run_server's return, the relay's clone when the relay ends.
PastWriterEnds(s) ==
    /\ pc \notin ExitPcs
    /\ past[s].writer = "running"
    /\ past[s].pending = 0
    /\ relay[s] = "ended"
    /\ past' = [past EXCEPT ![s].writer = "ended"]
    /\ UNCHANGED <<config, world, backup, server, stop_received, reader, writer, outq,
                   inq, pc, line, username, penalty, num, online_players,
                   players_online_since, playtime, now, session, due, lines_read,
                   fsop, trace, relay, console>>

\* Lines 165-170, in a session that has ended: out_rx is dropped, the send
\* fails and the loop is left.
PastHeartbeatEnds(s) ==
    /\ pc \notin ExitPcs
    /\ past[s].heartbeat = "running"
    /\ past' = [past EXCEPT ![s].heartbeat = "ended"]
    /\ UNCHANGED <<config, world, backup, server, stop_received, reader, writer, outq,
                   inq, pc, line, username, penalty, num, online_players,
                   players_online_since, playtime, now, session, due, lines_read,
                   fsop, trace, relay, console>>

\* read_pipe, lines 71-78, in a session that has ended: the pipe of the
\* exited child ends, or the send fails, and the loop is left.
PastReaderEnds(s, r) ==
    /\ pc \notin ExitPcs
    /\ past[s][r] = "running"
    /\ past' = [past EXCEPT ![s][r] = "ended"]
    /\ UNCHANGED <<config, world, backup, server, stop_received, reader, writer, outq,
                   inq, pc, line, username, penalty, num, online_players,
                   players_online_since, playtime, now, session, due, lines_read,
                   fsop, trace, relay, console>>

ThreadsNext ==
    \/ StartServer
    \/ RecvLine
    \/ ProcessLine
    \/ HeartbeatSend
    \/ WriterWrite
    \/ \E s \in Sessions : ConsoleLine(s)
    \/ ConsoleEof
    \/ \E s \in Sessions : RelayEof(s)
    \/ \E s \in Sessions : RelayAcquire(s)
    \/ \E s \in Sessions : PastWriterWrite(s)
    \/ \E s \in Sessions : PastWriterEnds(s)
    \/ \E s \in Sessions : PastHeartbeatEnds(s)
    \/ \E s \in Sessions, r \in ReaderNames : PastReaderEnds(s, r)

ThreadsSpec == TeardownInit /\ [][ThreadsNext]_vars


\* ================================================================ claims
IsPrefix(s, t) == Len(s) <= Len(t) /\ SubSeq(t, 1, Len(s)) = s

LoopPcs ==
    {"recv", "classify", "bk_rm", "bk_saveoff", "bk_copy", "bk_say",
     "d_cmd", "d_say", "d_rolling", "d_roll", "d_verdict"}
DeathPcs == {"d_cmd", "d_say", "d_rolling", "d_roll", "d_verdict"}
RewindPcs == {"rw_stop", "rw_wait", "rw_rm", "rw_copy"}
ResetPcs == {"rs_stop", "rs_wait", "rs_rm", "rs_rmbk"}

ResetOrder == <<"say Destroying world...", "stop", "wait", "rm_world", "rm_backup">>
ResetOrderNoBackup == <<"say Destroying world...", "stop", "wait", "rm_world">>
RewindOrder == <<"say Winding back...", "stop", "wait", "rm_world", "copy_to_world">>

\* C1: once the child has exited with no penalty pending, the event loop
\* eventually ends, whatever lines still arrive.
C1_ExitEndsLoop ==
    (server = "exited" /\ penalty = "None" /\ pc \in LoopPcs) ~> (pc \notin LoopPcs)

\* C2 (as stated): a line of an allowed player whose message starts with an
\* ignore-phrase starts no death procedure and leaves the online set and
\* players_online_since as they were.
C2_IgnoredChangesNothing ==
    [][ LET p == ParseLine(config, line)
        IN  (pc = "classify" /\ ~p.skip /\ AnyStartsWith(config.ignore_phrases, p.msg))
            => /\ pc' \notin DeathPcs
               /\ online_players' = online_players
               /\ players_online_since' = players_online_since ]_vars

\* C2 (amended): such a line starts no death procedure, also when its message
\* starts with a death template; the join and leave checks still apply to it,
\* and only they change the online set and players_online_since.
C2_IgnoreBeatsDeath ==
    [][ LET p == ParseLine(config, line)
        IN  (pc = "classify" /\ ~p.skip /\ AnyStartsWith(config.ignore_phrases, p.msg))
            => /\ pc' \notin DeathPcs
               /\ (~starts_with(p.msg, JOINED_THE_GAME)
                       /\ ~starts_with(p.msg, LEFT_THE_GAME))
                  => /\ online_players' = online_players
                     /\ players_online_since' = players_online_since ]_vars

\* A line about to be processed whose message starts with a death template
\* and with an ignore-phrase, from an allowed player.
C2_Witness ==
    LET p == ParseLine(config, line)
    IN  /\ pc = "classify"
        /\ ~p.skip
        /\ AnyStartsWith(death_msg, p.msg)
        /\ AnyStartsWith(config.ignore_phrases, p.msg)

\* C3: no send on the CommandSink aborts the main thread.
C3_SendNeverAborts == pc # "panicked"

\* C4 (as stated): whenever the supervisor changes the world or the backup
\* directory, the child has exited.
C4_MutationOnlyWhenStopped == fsop # "none" => server = "exited"

\* C4 (amended): whenever the supervisor deletes the world directory, copies
\* the backup into its place, or deletes the backup at the end of a reset, the
\* child has exited.
C4_RecoveryOnlyWhenStopped ==
    (fsop \in {"rm_world", "copy_to_world"} \/ (fsop = "rm_backup" /\ pc = "restart"))
        => server = "exited"

C4_Witness == fsop = "rm_backup" /\ pc = "restart" /\ server = "exited"

\* C5: a reset or rewind announces, then sends stop, then waits for the child
\* to exit, and only then deletes the world (then deletes the backup, or
\* copies it back); from the wait on the child has exited.
C5_RecoveryOrder ==
    /\ pc \in RewindPcs => IsPrefix(trace, RewindOrder)
    /\ pc \in ResetPcs => IsPrefix(trace, ResetOrder)
    /\ pc = "restart" => trace \in {RewindOrder, ResetOrder, ResetOrderNoBackup}
    /\ pc \in {"rw_stop", "rs_stop"} => Len(trace) = 1
    /\ pc \in {"rw_wait", "rs_wait"} => Len(trace) = 2 /\ world.exists
    /\ pc \in {"rw_rm", "rs_rm"} => Len(trace) = 3 /\ world.exists
    /\ (pc \in RewindPcs \cup ResetPcs \cup {"restart"} /\ Len(trace) >= 3)
           => server = "exited"
    /\ fsop = "rm_world" => server = "exited"

C5_Witness == pc = "restart" /\ trace = RewindOrder /\ fsop = "copy_to_world"

\* C6: on_death returns Penalty::Reset exactly for a deadly roll; a pending
\* reset never takes the rewind's steps and never ends the supervisor's run as
\* no penalty does; when its recovery has run, neither the world nor the
\* backup directory exists; and the session the outer loop then starts has a
\* newly spawned child, playtime 0 and nobody online.
C6_ResetThenFresh ==
    /\ [](pc = "restart" /\ penalty = "Reset" => ~world.exists /\ ~backup.exists)
    /\ [](penalty = "Reset" => pc \notin RewindPcs \cup {"exit_ok"})
    /\ [][ /\ (pc = "d_verdict" /\ pc' = "match")
              => (penalty' = "Reset" <=> IsDeadly(config, num))
           /\ (pc = "start" /\ penalty = "Reset" /\ pc' = "recv")
              => /\ ~world.exists /\ ~backup.exists
                 /\ server = "exited" /\ server' = "running"
                 /\ playtime' = 0
                 /\ online_players' = {}
                 /\ players_online_since' = Absent ]_vars

C6_Witness ==
    /\ session = 2 /\ pc = "recv" /\ server = "running"
    /\ playtime = 0 /\ online_players = {} /\ ~backup.exists

\* C7: a rewind with no backup takes the reset's steps (stop, wait, delete the
\* world, no copy, restart); a rewind with a backup leaves the backup there.
C7_RewindWithoutBackup ==
    /\ [][ (pc = "match" /\ penalty = "Rewind" /\ pc' # pc)
              => pc' = IF backup.exists THEN "rw_stop" ELSE "rs_stop" ]_vars
    /\ []( (penalty = "Rewind" /\ pc \in ResetPcs)
              => /\ ~backup.exists
                 /\ IsPrefix(trace, ResetOrderNoBackup)
                 /\ Len(trace) >= 3 => server = "exited" )
    /\ []( (penalty = "Rewind" /\ pc = "restart" /\ trace[1] = "say Destroying world...")
              => trace = ResetOrderNoBackup /\ ~world.exists /\ ~backup.exists )
    /\ []( (penalty = "Rewind"
               /\ (pc \in RewindPcs
                      \/ (pc = "restart" /\ trace[1] = "say Winding back...")))
              => backup.exists )

C7_Witness ==
    penalty = "Rewind" /\ pc = "restart" /\ trace = ResetOrderNoBackup /\ ~world.exists

\* C8 (as stated): with checkpoint_minutes = 10, an advance of playtime from
\* 550 s to 601 s is due: bucket(550) = 0, bucket(601) = 1.
C8_Scenario4Due ==
    [][ (config.checkpoint_minutes = 10 /\ as_secs(playtime) = 550
             /\ as_secs(playtime') = 601)
        => /\ backup_count(config, playtime) = 0
           /\ backup_count(config, playtime') = 1
           /\ due' /\ pc' = "bk_rm" ]_vars

\* C8 (amended): with checkpoint_minutes = 10, an advance of playtime from
\* 550 s to 601 s is not due: bucket(550) = 1 = bucket(601), update_playtime
\* returns false and no backup runs.
C8_Scenario4NotDue ==
    [][ (config.checkpoint_minutes = 10 /\ as_secs(playtime) = 550
             /\ as_secs(playtime') = 601)
        => /\ backup_count(config, playtime) = 1
           /\ backup_count(config, playtime') = 1
           /\ ~due' /\ pc' = "classify" ]_vars

\* After the step: players_online_since is the instant of the advance, and
\* the clock started at 0, so playtime - players_online_since is the playtime
\* before it.
C8_Witness ==
    /\ config.checkpoint_minutes = 10 /\ pc = "classify" /\ ~due
    /\ as_secs(playtime) = 601
    /\ as_secs(playtime - players_online_since) = 550

\* The multiples k that playtime can come near within the bounds.
Multiples(cfg) == 0 .. ((MaxPlaySecs + MaxAdvSecs) \div backup_interval(cfg) + 1)

Crosses(before, after, point) == before < point /\ after >= point

\* C9 (as stated): an advance that crosses k * interval - 30 (k >= 1) is due,
\* and one that crosses k * interval + 30 and no k * interval - 30 is not.
C9_DueBeforeMultiple ==
    [][ LET before == as_secs(playtime)
            after == as_secs(playtime')
            I == backup_interval(config)
        IN  pc = "recv" /\ pc' # pc
            => \A k \in Multiples(config) \ {0} :
                  /\ Crosses(before, after, k * I - CheckpointMarginSecs) => due'
                  /\ ( /\ Crosses(before, after, k * I + CheckpointMarginSecs)
                       /\ \A j \in Multiples(config) \ {0} :
                              ~Crosses(before, after, j * I - CheckpointMarginSecs) )
                     => ~due' ]_vars

\* C9 (amended): an advance is due exactly when it crosses a point 30 s after
\* a multiple of the interval, k * interval + 30 with k >= 0.
C9_DueAfterMultiple ==
    [][ LET before == as_secs(playtime)
            after == as_secs(playtime')
            I == backup_interval(config)
        IN  pc = "recv" /\ pc' # pc
            => (due' <=> \E k \in Multiples(config) :
                            Crosses(before, after, k * I + CheckpointMarginSecs)) ]_vars

\* An advance, at an interval of two minutes, that crosses 150 s = 120 + 30
\* and neither 90 s = 120 - 30 nor 210 s = 240 - 30.
C9_Witness ==
    /\ config.checkpoint_minutes = 2 /\ due /\ pc = "bk_rm"
    /\ as_secs(playtime) >= 150 /\ as_secs(playtime) < 210
    /\ as_secs(playtime - players_online_since) < 150
    /\ as_secs(playtime - players_online_since) >= 90

\* C10: within a session playtime grows only while somebody is online, by
\* more than 8 s, by exactly now - players_online_since, and
\* players_online_since becomes now in the same step.
C10_AdvanceOncePerSpan ==
    [][ (pc # "start" /\ playtime' > playtime)
        => /\ online_players # {}
           /\ players_online_since # Absent
           /\ playtime' - playtime = now - players_online_since
           /\ playtime' - playtime > Secs(AdvanceThresholdSecs)
           /\ players_online_since' = now
           /\ now' = now ]_vars

C10_Witness ==
    /\ fsop = "save_playtime" /\ players_online_since = now /\ online_players # {}
    /\ playtime > load_playtime([exists |-> TRUE, playtime |-> 25])

\* C11: players_online_since is set exactly while somebody is online; a join
\* into a non-empty online set and a leave that leaves somebody online do not
\* change it.
C11_SinceIffOnline ==
    /\ [](players_online_since # Absent <=> online_players # {})
    /\ [][ (pc = "classify" /\ online_players # {} /\ online_players' # {})
              => players_online_since' = players_online_since ]_vars

\* Two players online, the second having joined after the clock had moved on.
C11_Witness ==
    /\ Cardinality(online_players) = 2
    /\ players_online_since # Absent /\ players_online_since < now
    /\ lines_read = 2 /\ outq = <<>> /\ pc = "recv"

\* C12: the number on_death rolls and announces lies in roll_range; when
\* on_death returns, the penalty is Reset if that number is one of
\* deadly_rolls and None if not; the penalty is never Rewind.
C12_RollAndVerdict ==
    /\ [](pc = "d_verdict"
             => config.roll_range[1] <= num /\ num <= config.roll_range[2])
    /\ [](penalty # "Rewind")
    /\ [][ /\ (pc = "d_roll" /\ pc' = "d_verdict")
              => inq' = Append(inq, Cmd("say Rolled", <<num'>>))
           /\ (pc = "d_verdict" /\ pc' \in {"match", "recv"})
              => penalty' =
                     IF \E i \in DOMAIN config.deadly_rolls : config.deadly_rolls[i] = num
                     THEN "Reset" ELSE "None" ]_vars

\* on_death has just returned Reset.
C12_Witness ==
    /\ pc = "match" /\ penalty = "Reset"
    /\ trace # <<>> /\ trace[Len(trace)] = "say Always lucky boii"

BackupPcs == {"bk_rm", "bk_saveoff", "bk_copy", "bk_say"}

\* C13: from on_death's returning a penalty other than None to the end of the
\* session, the loop takes no line from the channel: no playtime update, no
\* backup, no change of who is online and no further death procedure.
C13_NoLineAfterPenalty ==
    /\ [](penalty # "None" => pc \notin LoopPcs)
    /\ [][ (penalty # "None" /\ pc # "start")
              => /\ IsPrefix(outq, outq')
                 /\ line' = line
                 /\ playtime' = playtime
                 /\ online_players' = online_players
                 /\ players_online_since' = players_online_since
                 /\ fsop' \notin {"save_playtime", "copy_to_backup"}
                 /\ pc' \notin LoopPcs ]_vars

\* A reset is waiting for the child while lines are queued on the channel.
C13_Witness ==
    penalty = "Reset" /\ pc = "rs_wait" /\ Len(outq) = MaxOut /\ lines_read = MaxLines

\* C14: the program's exit status is zero exactly when it ended normally; a
\* run that ended with a fatal error has a non-zero exit status.
C14_FatalErrorExitsNonZero ==
    pc \in ExitPcs => (exit_status = 0 <=> pc = "exit_ok")

BackupOrder ==
    <<"rm_backup", "save-all", "save-off", "copy_to_backup", "save-on", "say Checkpoint!">>

\* C16: a checkpoint backup deletes the old backup (if any), enqueues
\* save-all, enqueues save-off, copies the world, enqueues save-on and
\* enqueues the announcement, in this order; while it runs the loop takes no
\* line from the channel.
C16_BackupOrder ==
    /\ [](pc \in BackupPcs
             => IsPrefix(trace, BackupOrder) \/ IsPrefix(trace, Tail(BackupOrder)))
    /\ [](pc = "bk_rm" => trace = <<>>)
    /\ [](pc = "bk_saveoff" => trace[Len(trace)] = "save-all" /\ ~backup.exists)
    /\ [](pc = "bk_copy" => trace[Len(trace)] = "save-off" /\ ~backup.exists)
    /\ [](pc = "bk_say" => trace[Len(trace)] = "save-on" /\ backup.exists)
    /\ [][ /\ pc \in BackupPcs
              => /\ IsPrefix(outq, outq')
                 /\ line' = line
                 /\ playtime' = playtime
                 /\ online_players' = online_players
                 /\ pc' \in BackupPcs \cup {"classify", "exit_err", "panicked"}
           /\ (pc \in BackupPcs /\ pc' = "classify")
              => /\ pc = "bk_say"
                 /\ trace' \in {BackupOrder, Tail(BackupOrder)}
                 /\ inq' = Append(inq, Cmd("say Checkpoint!", <<>>)) ]_vars

\* A backup that replaced an older one has just been completed.
C16_Witness == pc = "classify" /\ trace = BackupOrder /\ backup.exists

\* C17: with the heartbeat and the main thread scheduled fairly, a session in
\* which somebody is online and more than 8 s have passed since playtime was
\* last advanced does not stay so: playtime is advanced and saved again (or
\* nobody is online any more, or the loop has ended).
C17_PlaytimeKeepsAdvancing ==
    ( /\ players_online_since # Absent
      /\ now - players_online_since > Secs(AdvanceThresholdSecs)
      /\ pc \in LoopPcs )
    ~> (fsop = "save_playtime" \/ players_online_since = Absent \/ pc \notin LoopPcs)

\* Playtime has just been advanced and saved on a heartbeat's empty line,
\* the child having written nothing since.
C17_Witness ==
    /\ pc = "classify" /\ line = Heartbeat /\ fsop = "save_playtime"
    /\ outq = <<>> /\ lines_read = 1 /\ online_players # {}

\* C19: while a death procedure runs, the loop takes no line from the
\* channel, so lines arriving then stay queued; after a verdict of None with
\* the child still running the loop goes back to the channel with the queue
\* as it is; lines are taken in the order they were queued; and a death line
\* of an allowed player that is taken starts a death procedure for that player.
C19_DeathsOneAtATime ==
    [][ /\ pc \in DeathPcs
          => /\ IsPrefix(outq, outq')
             /\ pc' \in DeathPcs \cup {"recv", "match", "panicked"}
        /\ (pc = "d_verdict" /\ ~IsDeadly(config, num) /\ server = "running" /\ pc' # pc)
          => pc' = "recv" /\ outq' = outq /\ penalty' = "None"
        /\ (pc = "recv" /\ pc' # pc)
          => line' = Head(outq) /\ outq' = Tail(outq)
        /\ ( /\ pc = "classify" /\ pc' # pc
             /\ line = bytes_to_string(LineFellS)
             /\ (config.allow_all_players \/ <<"S">> \in config.players) )
          => pc' \in {"d_cmd", "d_say"} /\ username' = <<"S">> ]_vars

\* A death line is queued behind a death procedure that is running.
C19_Witness ==
    /\ pc \in DeathPcs /\ server = "running"
    /\ outq # <<>> /\ outq[1] = bytes_to_string(LineFellS)

\* C20: a checkpoint copies a world whose playtime.txt holds the playtime
\* just saved; a rewind puts the backup, playtime.txt included, in the world's
\* place and leaves the backup as it is; so the session started after a
\* rewind begins with the playtime saved at the checkpoint, not the playtime
\* reached when the player died.
C20_RewindRestoresPlaytime ==
    [][ /\ (pc = "bk_copy" /\ pc' = "bk_say")
          => /\ world.playtime = as_secs(playtime)
             /\ backup'.playtime = as_secs(playtime)
        /\ (pc = "rw_copy" /\ pc' = "restart")
          => world'.playtime = backup.playtime /\ backup' = backup
        /\ (pc = "start" /\ penalty = "Rewind" /\ trace = RewindOrder /\ pc' = "recv")
          => /\ playtime' = Secs(backup.playtime)
             /\ world'.playtime = backup.playtime
             /\ backup' = backup ]_vars

\* The session after a rewind: the death was at 27 s of playtime, the backup
\* held 25 s.
C20_Witness ==
    /\ session = 2 /\ pc = "recv" /\ lines_read = 0 /\ now = 0
    /\ playtime = Secs(25) /\ world.playtime = 25 /\ backup.exists

\* C15: when a session has ended and its channel ends are dropped, none of
\* the session's background tasks (readers, heartbeat, writer, console
\* relay) ends in a panic.  (The claim also says that each of them ends.)
C15_EndedTasksNeverPanic ==
    \A s \in Sessions :
        /\ past[s].writer # "panicked"
        /\ past[s].stdout # "panicked"
        /\ past[s].stderr # "panicked"
        /\ past[s].heartbeat # "panicked"

\* C18: every line the operator types while a session is running comes onto
\* the in channel (the CommandSink) of that session, also in a session
\* started after a restart: none goes to the writer of a session that has
\* ended, and none is dropped by a relay left over from one.
C18_NoConsoleLineLost == console.lost = 0


====
